---- MODULE Spec2Model ----
(***************************************************************************)
(* Model of the embedded sign-in widget server (package server): the       *)
(* handlers LoginHandler, LoginCallbackHandler, LogoutHandler and          *)
(* HomeHandler over the Server struct, the cookie-backed session store and *)
(* the go-cache token cache.                                               *)
(*                                                                         *)
(* Each browser has at most one request in flight.  A handler is cut into  *)
(* steps at its blocking outbound calls (interact, token, revoke,          *)
(* userinfo) and at the places where it touches fields of the shared       *)
(* Server value, so requests of different browsers interleave as the       *)
(* goroutines of net/http do.  Variable resp holds the outcome of the step *)
(* just taken: the response it wrote, with the request it answers, or      *)
(* NoResponse when the step wrote none.                                    *)
(*                                                                         *)
(* Conventions: the empty string "" and the number 0 stand for a value     *)
(* that is nil or empty; the code tests `== nil || == ""` together at      *)
(* every place it tests either.                                            *)
(***************************************************************************)
EXTENDS Integers, FiniteSets, Sequences, TLC

VARIABLES
    running,            \* the process is alive (no log.Fatalf / os.Exit yet)
    issuer,             \* s.idxClient.Config().Okta.IDX.Issuer
    state,              \* Server.state
    pkce,               \* Server.pkce (NilPKCE for the nil pointer)
    interactionHandle,  \* Server.interactionHandle
    cache,              \* Server.cache: key -> item
    now,                \* wall clock, in ticks
    session,            \* the cookie each browser holds: its session.Values
    pc,                 \* per browser: where its request's handler stands
    req,                \* per browser: the request being handled
    local,              \* per browser: the handler's local variables
    resp                \* what the step just taken answered, and to whom

vars == <<running, issuer, state, pkce, interactionHandle, cache, now, session,
          pc, req, local, resp>>

----------------------------------------------------------------------------
(* Bounds of the model *)

\* Last tick of the clock.
MaxTime == 3

\* Number of distinct code verifiers crypto/rand can produce.
NumVerifiers == 2

\* Ticks per hour.
Hour == 2

\* Length in bytes of a digest (sha256.Size is 32, which leaves the same
\* remainder of two bytes in the last group of three).
DigestLen == 2

Browsers == {"A", "B"}

Verifiers == 1..NumVerifiers

----------------------------------------------------------------------------
(* Values *)

\* hex.EncodeToString(b) of NewServer, and a value that differs from it.
ServerState == "s1"
OtherState == "s2"
QueryStates == {ServerState, OtherState}

QueryErrors == {"", "interaction_required"}
QueryCodes == {"", "ic1"}

\* What the interact endpoint may answer: a handle, or a body without one.
Handles == {"ih1", "ih2"}

\* generateNonce(): the nonces that crypto/rand can produce.
Nonces == {"n1"}

\* The nonce claim of identity token t, "" for a token without one.  The
\* interact request carries no nonce (lines 498-503) and the nonce of
\* LoginHandler goes to the login template only, so the tokens that the
\* token endpoint returns in the model carry none.
NonceClaim(t) == ""

\* Identity tokens a token response may carry.  VerifiableIdTokens are those
\* that the JwtVerifier accepts for the configured issuer and client id.
VerifiableIdTokens == {"id1", "id2"}

\* The issuer of the configuration, as the sequence of the pieces of its
\* text.  "oauth2" is a piece of its own wherever the text has it, and no
\* other piece holds a part of it, so the text contains "oauth2" exactly when
\* one of the pieces is "oauth2"; "/" is a piece of its own as well, so the
\* path starts at the first "/" and its segments are the pieces between "/".
Issuers ==
    { << "https://", "example.com" >>,
      << "https://", "example.com", "/", "oauth2" >>,
      << "https://", "example.com", "/", "oauth2", "/", "default" >>,
      << "https://", "example.com", "/", "my", "oauth2" >>,
      << "https://", "oauth2", ".example.com" >>,
      << "https://", "oauth2", ".example.com", "/", "oauth2", "/", "default" >> }

\* The issuer of an Okta custom authorization server.
DefaultIssuer == << "https://", "example.com", "/", "oauth2", "/", "default" >>

\* strings.Contains(text, piece) on a text given by its pieces.
Contains(text, piece) == \E i \in 1..Len(text) : text[i] = piece

\* Server.oAuthEndPoint(operation) for issuer iss.
oAuthEndPoint(iss, operation) ==
    IF Contains(iss, "oauth2")
    THEN iss \o << "/", "v1", "/", operation >>
    ELSE iss \o << "/", "oauth2", "/", "v1", "/", operation >>

\* type PKCE struct.  A code verifier is a number (0 for none), a code
\* challenge a sequence of characters (<<>> for none).
NilPKCE == [CodeVerifier |-> 0, CodeChallenge |-> <<>>, CodeChallengeMethod |-> ""]

\* h.Write([]byte(verifier)); h.Sum(nil): the digest of verifier v, a
\* sequence of DigestLen bytes.  The hash itself is a fixed table, one-to-one
\* on the verifiers of the model.
sha256Sum(v) == [i \in 1..DigestLen |-> (89 * v + 151 * i) % 256]

\* The alphabet of base64.URLEncoding.
encodeURL ==
    << "A", "B", "C", "D", "E", "F", "G", "H", "I", "J", "K", "L", "M",
       "N", "O", "P", "Q", "R", "S", "T", "U", "V", "W", "X", "Y", "Z",
       "a", "b", "c", "d", "e", "f", "g", "h", "i", "j", "k", "l", "m",
       "n", "o", "p", "q", "r", "s", "t", "u", "v", "w", "x", "y", "z",
       "0", "1", "2", "3", "4", "5", "6", "7", "8", "9", "-", "_" >>

\* The 6-bit groups of the byte sequence bs, three bytes to four groups; a
\* last group of one or two bytes gives two or three groups, the last one
\* filled with zero bits.
RECURSIVE sextets(_)
sextets(bs) ==
    IF Len(bs) = 0 THEN <<>>
    ELSE IF Len(bs) = 1
    THEN << bs[1] \div 4, (bs[1] % 4) * 16 >>
    ELSE IF Len(bs) = 2
    THEN << bs[1] \div 4, (bs[1] % 4) * 16 + bs[2] \div 16, (bs[2] % 16) * 4 >>
    ELSE << bs[1] \div 4, (bs[1] % 4) * 16 + bs[2] \div 16,
            (bs[2] % 16) * 4 + bs[3] \div 64, bs[3] % 64 >>
         \o sextets(SubSeq(bs, 4, Len(bs)))

\* An encoding that pads its output with "=" to a multiple of four
\* characters, as base64.URLEncoding does.
URLEncodingPadded(bs) ==
    LET g == sextets(bs)
        n == ((Len(g) + 3) \div 4) * 4
    IN  [i \in 1..n |-> IF i <= Len(g) THEN encodeURL[g[i] + 1] ELSE "="]

\* base64.RawURLEncoding.EncodeToString(bs): no padding characters.
RawURLEncoding(bs) ==
    LET g == sextets(bs)
    IN  [i \in 1..Len(g) |-> encodeURL[g[i] + 1]]

\* codeChallenge of createPKCEData for verifier v.
CodeChallengeOf(v) == RawURLEncoding(sha256Sum(v))

\* createPKCEData for the verifier v drawn by createCodeVerifier.
createPKCEData(v) ==
    [CodeVerifier |-> v, CodeChallenge |-> CodeChallengeOf(v),
     CodeChallengeMethod |-> "S256"]

\* session.Values of a session that was never saved.
EmptyValues ==
    [pkceData |-> "", pkce_code_verifier |-> 0, pkce_code_challenge |-> <<>>,
     pkce_code_challenge_method |-> "", id_token |-> "", access_token |-> ""]

\* session.ID.  The store is a sessions.CookieStore, which keeps the whole
\* session in the cookie and never assigns Session.ID: it is "" for every
\* browser.
SessionID(b) == ""

TokenKinds == {"id_token", "access_token"}

\* fmt.Sprintf("%s-id_token", session.ID), fmt.Sprintf("%s-access_token", ...)
CacheKey(b, kind) == <<SessionID(b), kind>>

CacheKeys == {CacheKey(b, k) : b \in Browsers, k \in TokenKinds}

----------------------------------------------------------------------------
(* The token cache: github.com/patrickmn/go-cache, cache.New(5*time.Minute, *)
(* 10*time.Minute).  Every entry of this program is added with its own      *)
(* duration, so the default expiration of 5 minutes is never used; the      *)
(* janitor interval only decides when DeleteExpired runs.                   *)

\* An absent entry.  Created and Owner are not fields of cache.Item: they
\* record the tick at which the entry was stored and the browser whose
\* request stored it.
NoItem ==
    [present |-> FALSE, Object |-> "", Expiration |-> 0, Created |-> 0,
     Owner |-> ""]

\* A duration of two hours.
TokenTTL_twoHours == 2 * Hour

\* The duration of the two cache.Add calls of LoginCallbackHandler: time.Hour.
TokenTTL == Hour

\* Item.Expired(): time.Now().UnixNano() > item.Expiration
Expired(item, t) == t > item.Expiration

\* cache.Get(k): (value, found).  An expired entry is not found.
cacheGet(c, k, t) ==
    IF c[k].present /\ ~Expired(c[k], t)
    THEN [found |-> TRUE, value |-> c[k].Object]
    ELSE [found |-> FALSE, value |-> ""]

\* cache.Add(k, x, d), called at tick t for a request of browser who:
\* stores x only if no unexpired entry is under k; otherwise it returns an
\* error, which the caller drops.
cacheAdd(c, k, x, d, t, who) ==
    IF cacheGet(c, k, t).found
    THEN c
    ELSE [c EXCEPT ![k] = [present |-> TRUE, Object |-> x,
                           Expiration |-> t + d, Created |-> t,
                           Owner |-> who]]

\* cache.Flush(): removes every entry of the cache.
cacheFlush(c) == [k \in DOMAIN c |-> NoItem]

\* cache.DeleteExpired(), run by the janitor.
cacheDeleteExpired(c, t) ==
    [k \in DOMAIN c |-> IF c[k].present /\ Expired(c[k], t) THEN NoItem ELSE c[k]]

----------------------------------------------------------------------------
(* Requests, responses and handler locals *)

NoRequest ==
    [handler |-> "", state |-> "", error |-> "", interaction_code |-> "",
     cookieErr |-> FALSE]

\* cookieErr: the cookie the request carries does not decode, so
\* sessionStore.Get returns a new, empty session together with an error.
RequestsTo(h) ==
    IF h = "callback"
    THEN {[handler |-> h, state |-> s, error |-> e, interaction_code |-> c,
           cookieErr |-> ce] :
            s \in QueryStates, e \in QueryErrors, c \in QueryCodes, ce \in BOOLEAN}
    ELSE {[handler |-> h, state |-> "", error |-> "", interaction_code |-> "",
           cookieErr |-> ce] : ce \in BOOLEAN}

\* Config().Okta.IDX.ClientID and ClientSecret.
ClientID == "client_id_0"
ClientSecret == "client_secret_0"

\* A code_verifier value that createPKCEData never produced.
ForeignVerifier == NumVerifiers + 1

\* r.URL.Query(): the values of each parameter of the query string, in order.
\* extra: the query string of the callback URL also carries parameters named
\* grant_type, client_id, client_secret and code_verifier; the handler reads
\* them nowhere but here.
URLQuery(r, extra) ==
    [state            |-> IF r.state = "" THEN <<>> ELSE <<r.state>>,
     error            |-> IF r.error = "" THEN <<>> ELSE <<r.error>>,
     interaction_code |-> IF r.interaction_code = "" THEN <<>>
                                                      ELSE <<r.interaction_code>>,
     grant_type       |-> IF extra THEN <<"password">> ELSE <<>>,
     client_id        |-> IF extra THEN <<"client_id_x">> ELSE <<>>,
     client_secret    |-> IF extra THEN <<"client_secret_x">> ELSE <<>>,
     code_verifier    |-> IF extra THEN <<ForeignVerifier>> ELSE <<>>]

\* url.Values: Del removes the values of a key, Add appends a value to those
\* of a key, Set replaces them by one value, Get is the first value or "".
Values_Del(q, key) == [q EXCEPT ![key] = <<>>]
Values_Add(q, key, value) == [q EXCEPT ![key] = Append(@, value)]
Values_Set(q, key, value) == [q EXCEPT ![key] = <<value>>]
Values_Get(q, key) == IF q[key] = <<>> THEN "" ELSE q[key][1]

\* Lines 292-299: the query of the token request, built from the query of the
\* callback URL.
tokenQuery(r, extra, vals) ==
    LET q0 == URLQuery(r, extra)
        q1 == Values_Del(q0, "state")
        q2 == Values_Add(q1, "grant_type", "interaction_code")
        q3 == Values_Set(q2, "interaction_code", Values_Get(URLQuery(r, extra), "interaction_code"))
        q4 == Values_Add(q3, "client_id", ClientID)
        q5 == Values_Add(q4, "client_secret", ClientSecret)
    IN  Values_Add(q5, "code_verifier", vals.pkce_code_verifier)

\* No query.
NoQuery ==
    [state |-> <<>>, error |-> <<>>, interaction_code |-> <<>>, grant_type |-> <<>>,
     client_id |-> <<>>, client_secret |-> <<>>, code_verifier |-> <<>>]

\* type Exchange struct, with how the HTTP call ended (Result) and the
\* response's status code.
NoExchange ==
    [Result |-> "", Status |-> 0, Error |-> "", IdToken |-> "", AccessToken |-> ""]

ExchangeOf(result, status, error, id, at) ==
    [Result |-> result, Status |-> status, Error |-> error, IdToken |-> id,
     AccessToken |-> at]

\* What the token endpoint call may produce.
TokenResponses ==
    { ExchangeOf("net_error", 0, "", "", ""),        \* client.Do fails or times out
      ExchangeOf("read_error", 200, "", "", ""),     \* ioutil.ReadAll fails
      ExchangeOf("bad_json", 200, "", "", ""),       \* json.Unmarshal fails
      ExchangeOf("ok", 200, "", "id1", "at1"),
      ExchangeOf("ok", 200, "", "id2", "at2"),
      ExchangeOf("ok", 200, "", "bad", "at1"),
      ExchangeOf("ok", 400, "invalid_grant", "", ""),
      ExchangeOf("ok", 200, "invalid_grant", "", ""),
      ExchangeOf("ok", 200, "invalid_grant", "id1", "at1") }

\* What the interact endpoint call may produce: Handle is the decoded
\* interaction_handle field ("" when the body has none).  Result "ok" is a
\* 2xx response with a JSON body, "http_error" a non-2xx response with a JSON
\* body (an error document, without a handle).
InteractResponses ==
    { [Result |-> "net_error", Handle |-> ""],
      [Result |-> "read_error", Handle |-> ""],
      [Result |-> "bad_json", Handle |-> ""],
      [Result |-> "http_error", Handle |-> ""],
      [Result |-> "ok", Handle |-> ""] }
    \cup { [Result |-> "ok", Handle |-> h] : h \in Handles }

\* How the revoke call may end: 2xx, a non-2xx status, an error without a
\* response (network failure, timeout), an error with a response (the
\* redirect policy stopped the call).
RevokeResults == {"ok", "http_error", "net_error", "redirect_error"}

\* How the userinfo call may end.
UserinfoResults == {"ok", "net_error"}

NoLocal ==
    [created |-> FALSE,
     interact |-> [code_challenge |-> <<>>, state |-> ""],
     token |-> NoQuery,
     exchange |-> NoExchange,
     revoke |-> "",
     url |-> <<>>,
     nonce |-> ""]

\* Page data that carries the cached identity token of the browser.
Response_withToken(b, r, kind, cause, auth, st, pk, ih) ==
    [to |-> b, req |-> r, kind |-> kind, cause |-> cause,
     IsAuthenticated |-> auth, State |-> st, Pkce |-> pk,
     InteractionHandle |-> cacheGet(cache, CacheKey(b, "id_token"), now).value]

\* The outcome of a step that ends request r of browser b: kind is the path
\* that ended it, cause how the outbound call that the step waited for ended
\* ("" when it waited for none), and the other fields are the data handed to
\* the template.
Response(b, r, kind, cause, auth, st, pk, ih) ==
    [to |-> b, req |-> r, kind |-> kind, cause |-> cause,
     IsAuthenticated |-> auth, State |-> st, Pkce |-> pk,
     InteractionHandle |-> ih]

NoResponse ==
    [to |-> "", req |-> NoRequest, kind |-> "none", cause |-> "",
     IsAuthenticated |-> FALSE, State |-> "", Pkce |-> NilPKCE,
     InteractionHandle |-> ""]

Plain(b, r, kind, cause) == Response(b, r, kind, cause, FALSE, "", NilPKCE, "")

\* session.Values as the handler of request r of browser b sees them.
Values(b, r) == IF r.cookieErr THEN EmptyValues ELSE session[b]

----------------------------------------------------------------------------
(* Helpers of the handlers *)

\* A verification that accepts every token that is not empty.
verifyToken_lax(t) == t # ""

\* Server.verifyToken: nil error exactly for the tokens that
\* JwtVerifier.VerifyIdToken accepts; the empty token is never accepted.
verifyToken(t) == t \in VerifiableIdTokens

\* Server.isAuthenticated(r) for request r of browser b.
isAuthenticated(b, r) ==
    LET vals == Values(b, r)
        idToken == IF vals.id_token = ""
                   THEN cacheGet(cache, CacheKey(b, "id_token"), now).value
                   ELSE vals.id_token
    IN  ~(r.cookieErr \/ idToken = "")

\* The access token getProfileData finds for request r of browser b ("" for
\* none).
profileAccessToken(b, r) ==
    LET vals == Values(b, r)
        accessToken == IF vals.access_token = ""
                       THEN cacheGet(cache, CacheKey(b, "access_token"), now).value
                       ELSE vals.access_token
    IN  IF r.cookieErr THEN "" ELSE accessToken

\* The handler of request r of browser b goes on to label l without
\* answering yet.
Goto(b, r, l) ==
    /\ pc' = [pc EXCEPT ![b] = l]
    /\ req' = [req EXCEPT ![b] = r]
    /\ resp' = NoResponse

\* The handler of b's request returns, having written response rsp.
Finish(b, rsp) ==
    /\ pc' = [pc EXCEPT ![b] = "idle"]
    /\ req' = [req EXCEPT ![b] = NoRequest]
    /\ local' = [local EXCEPT ![b] = NoLocal]
    /\ resp' = rsp

\* log.Fatalf / os.Exit(1) while handling request r of browser b: the
\* process ends.  Its memory (the Server value, the cache, the handlers'
\* locals) and the requests in flight are gone; the cookies stay with the
\* browsers.
Exit(b, r, cause) ==
    /\ running' = FALSE
    /\ pkce' = NilPKCE
    /\ interactionHandle' = ""
    /\ cache' = [k \in CacheKeys |-> NoItem]
    /\ pc' = [c \in Browsers |-> "idle"]
    /\ req' = [c \in Browsers |-> NoRequest]
    /\ local' = [c \in Browsers |-> NoLocal]
    /\ resp' = Plain(b, r, "exit", cause)
    /\ UNCHANGED <<issuer, state, now, session>>

----------------------------------------------------------------------------
(* NewServer *)

\* The server as NewServer returns it; the issuer is that of the
\* configuration file.
Started ==
    /\ running = TRUE
    /\ state = ServerState
    /\ pkce = NilPKCE
    /\ interactionHandle = ""
    /\ cache = [k \in CacheKeys |-> NoItem]
    /\ now = 0
    /\ session = [b \in Browsers |-> EmptyValues]
    /\ pc = [b \in Browsers |-> "idle"]
    /\ req = [b \in Browsers |-> NoRequest]
    /\ local = [b \in Browsers |-> NoLocal]
    /\ resp = NoResponse

Init ==
    /\ issuer = DefaultIssuer
    /\ Started

----------------------------------------------------------------------------
(* LoginHandler *)

\* Lines 158-170, 176-178: the session is read; without session value
\* "pkceData" new PKCE data is created and assigned to s.pkce (the process
\* exits when the random source fails); with it, the fields of *s.pkce are
\* overwritten from the session, which panics on a nil s.pkce.
LoginHandler(b) ==
    /\ running
    /\ pc[b] = "idle"
    /\ \E r \in RequestsTo("login") :
         IF Values(b, r).pkceData = ""
         THEN \E randOK \in BOOLEAN :
                IF randOK
                THEN /\ \E v \in Verifiers : pkce' = createPKCEData(v)
                     /\ Goto(b, r, "login_save")
                     /\ local' = [local EXCEPT ![b].created = TRUE]
                     /\ UNCHANGED <<running, interactionHandle, cache>>
                ELSE Exit(b, r, "rand")
         ELSE IF pkce = NilPKCE
              THEN /\ Finish(b, Plain(b, r, "aborted", ""))
                   /\ UNCHANGED <<running, pkce, interactionHandle, cache>>
              ELSE /\ pkce' = [CodeVerifier |-> Values(b, r).pkce_code_verifier,
                               CodeChallenge |-> Values(b, r).pkce_code_challenge,
                               CodeChallengeMethod |->
                                   Values(b, r).pkce_code_challenge_method]
                   /\ Goto(b, r, "login_save")
                   /\ local' = [local EXCEPT ![b].created = FALSE]
                   /\ UNCHANGED <<running, interactionHandle, cache>>
    /\ UNCHANGED <<issuer, state, now, session>>

\* Lines 171-174, 180-184: the fields of *s.pkce are copied into the session
\* and the session is saved, then the nonce is generated (the process exits
\* when the random source fails).  The saved cookie travels with the
\* response; no other request reads it before, so the browser's cookie is
\* replaced here.  It is not replaced when the session was read with an
\* error: http.Error (line 163) has then already written the header.
LoginSave(b) ==
    /\ running
    /\ pc[b] = "login_save"
    /\ \E randOK \in BOOLEAN :
         IF randOK
         THEN /\ session' =
                   IF local[b].created /\ ~req[b].cookieErr
                   THEN [session EXCEPT ![b] =
                           [@ EXCEPT !.pkce_code_verifier = pkce.CodeVerifier,
                                     !.pkce_code_challenge = pkce.CodeChallenge,
                                     !.pkce_code_challenge_method = pkce.CodeChallengeMethod]]
                   ELSE session
              /\ \E n \in Nonces : local' = [local EXCEPT ![b].nonce = n]
              /\ Goto(b, req[b], "login_send")
              /\ UNCHANGED <<running, pkce, interactionHandle, cache>>
         ELSE /\ Exit(b, req[b], "rand")
              /\ UNCHANGED session
    /\ UNCHANGED <<issuer, state, now>>

\* Line 196 and getInteractionHandle up to client.Do (lines 498-512): the
\* interact request is sent with s.pkce.CodeChallenge, as the field reads at
\* this moment, and s.state.
LoginSendInteract(b) ==
    /\ running
    /\ pc[b] = "login_send"
    /\ local' = [local EXCEPT ![b].interact =
                   [code_challenge |-> pkce.CodeChallenge, state |-> state],
                                ![b].url = oAuthEndPoint(issuer, "interact")]
    /\ Goto(b, req[b], "login_interact")
    /\ UNCHANGED <<running, issuer, state, pkce, interactionHandle, cache, now, session>>

\* getInteractionHandle from client.Do on, and lines 196-223: the handle of
\* the response ("" with an error) is assigned to s.interactionHandle and
\* the login page is rendered with s.state, s.pkce and the handle.  A body
\* that cannot be read ends the process.  The status code of the response is
\* not looked at, and the error that getInteractionHandle returns is only
\* printed.  The nonce is handed to the template as well and kept nowhere.
LoginInteract(b) ==
    /\ running
    /\ pc[b] = "login_interact"
    /\ \E r \in InteractResponses :
         IF r.Result = "read_error"
         THEN Exit(b, req[b], r.Result)
         ELSE LET handle == IF r.Result \in {"ok", "http_error"}
                            THEN r.Handle ELSE ""
              IN  /\ interactionHandle' = handle
                  /\ Finish(b, Response(b, req[b], "login_page", r.Result,
                                        isAuthenticated(b, req[b]), state, pkce,
                                        handle))
                  /\ UNCHANGED <<running, pkce, cache>>
    /\ UNCHANGED <<issuer, state, now, session>>

----------------------------------------------------------------------------
(* LoginCallbackHandler *)

\* A test that finds an interaction code in every callback.
codeMissing_never(r) == FALSE

\* Line 273: the query has no interaction_code, or an empty one.
codeMissing(r) == r.interaction_code = ""

\* A test that finds PKCE data in every session.
pkceMissing_never(vals) == FALSE

\* The six tests of lines 283-288 on the session's PKCE values.
pkceMissing(vals) ==
    \/ vals.pkce_code_verifier = 0
    \/ vals.pkce_code_challenge = <<>>
    \/ vals.pkce_code_challenge_method = ""

\* A state check that lets every callback through.
stateMatches_skipped(r) == TRUE

\* Line 228: the state of the query string is the server's state.
stateMatches(r) == r.state = state

\* Lines 226-306, up to client.Do: the checks of the query string and of the
\* session, then the token request is sent.  Its URL is that of operation
\* "token" followed by the query, which local.token holds.
LoginCallbackHandler(b) ==
    /\ running
    /\ pc[b] = "idle"
    /\ \E r \in RequestsTo("callback") :
         IF ~stateMatches(r)
         THEN /\ Finish(b, Plain(b, r, "state_mismatch", ""))
         ELSE IF r.error = "interaction_required"
         THEN /\ Finish(b, Response(b, r, "login_page", "", isAuthenticated(b, r),
                                    state, pkce, interactionHandle))
         ELSE IF codeMissing(r)
         THEN /\ Finish(b, Plain(b, r, "no_code", ""))
         ELSE IF pkceMissing(Values(b, r))
         THEN /\ Finish(b, Plain(b, r, "no_pkce", ""))
         ELSE /\ \E extra \in BOOLEAN :
                   local' = [local EXCEPT ![b].token = tokenQuery(r, extra, Values(b, r)),
                                          ![b].url = oAuthEndPoint(issuer, "token")]
              /\ Goto(b, r, "cb_exchange")
    /\ UNCHANGED <<running, issuer, state, pkce, interactionHandle, cache, now, session>>

\* Lines 306-328: the token response arrives.  A failed call, an unreadable
\* body, a body that is not JSON and an identity token that does not verify
\* each end the process (log.Fatalf); otherwise the identity token is added
\* to the cache for one hour.
TokenResponse(b) ==
    /\ running
    /\ pc[b] = "cb_exchange"
    /\ \E r \in TokenResponses :
         IF r.Result # "ok"
         THEN Exit(b, req[b], r.Result)
         ELSE IF ~verifyToken(r.IdToken)
         THEN Exit(b, req[b], "verification")
         ELSE /\ local' = [local EXCEPT ![b].exchange = r]
              /\ cache' = cacheAdd(cache, CacheKey(b, "id_token"), r.IdToken,
                                   TokenTTL, now, b)
              /\ Goto(b, req[b], "cb_add_access")
              /\ UNCHANGED <<running, pkce, interactionHandle>>
    /\ UNCHANGED <<issuer, state, now, session>>

\* Lines 329-331: the access token is added to the cache for one hour and
\* the browser is redirected to "/".
CallbackAddAccessToken(b) ==
    /\ running
    /\ pc[b] = "cb_add_access"
    /\ cache' = cacheAdd(cache, CacheKey(b, "access_token"),
                         local[b].exchange.AccessToken, TokenTTL, now, b)
    /\ Finish(b, Plain(b, req[b], "callback_redirect", "ok"))
    /\ UNCHANGED <<running, issuer, state, pkce, interactionHandle, now, session>>

----------------------------------------------------------------------------
(* LogoutHandler *)

\* Line 349: the test under which the revoke request is built.
revokeGuard(err) == err

\* Lines 347-363 up to client.Do, or lines 372-373 when no revoke request is
\* made: the revoke request is sent when sessionStore.Get returned an error
\* and an access token is cached under the session's key; otherwise the
\* cache is flushed and the browser is redirected to "/".
LogoutHandler(b) ==
    /\ running
    /\ pc[b] = "idle"
    /\ \E r \in RequestsTo("logout") :
         LET got == cacheGet(cache, CacheKey(b, "access_token"), now)
         IN  IF revokeGuard(r.cookieErr) /\ got.found
             THEN /\ local' = [local EXCEPT ![b].revoke = got.value,
                                             ![b].url = oAuthEndPoint(issuer, "revoke")]
                  /\ Goto(b, r, "logout_revoke")
                  /\ UNCHANGED cache
             ELSE /\ cache' = cacheFlush(cache)
                  /\ Finish(b, Plain(b, r, "logout_redirect", ""))
    /\ UNCHANGED <<running, issuer, state, pkce, interactionHandle, now, session>>

\* Lines 363-373: the revoke call returns.  With an error and no response
\* (network failure, timeout) line 365 dereferences the nil response: the
\* handler panics, net/http recovers and drops the connection, and neither
\* the flush nor the redirect happens.  Otherwise the cache is flushed and
\* the browser is redirected to "/".
RevokeResponse(b) ==
    /\ running
    /\ pc[b] = "logout_revoke"
    /\ \E r \in RevokeResults :
         IF r = "net_error"
         THEN /\ Finish(b, Plain(b, req[b], "aborted", r))
              /\ UNCHANGED cache
         ELSE /\ cache' = cacheFlush(cache)
              /\ Finish(b, Plain(b, req[b], "logout_redirect", r))
    /\ UNCHANGED <<running, issuer, state, pkce, interactionHandle, now, session>>

----------------------------------------------------------------------------
(* HomeHandler (ProfileHandler runs the same code with another template) *)

\* Lines 144-151 and getProfileData up to client.Do: without an access token
\* the profile is empty and the page is rendered with isAuthenticated;
\* with one, the userinfo request is sent.
HomeHandler(b) ==
    /\ running
    /\ pc[b] = "idle"
    /\ \E r \in RequestsTo("home") :
         IF profileAccessToken(b, r) = ""
         THEN Finish(b, Response(b, r, "home_page", "", isAuthenticated(b, r),
                                 "", NilPKCE, ""))
         ELSE /\ Goto(b, r, "home_userinfo")
              /\ local' = [local EXCEPT ![b].url = oAuthEndPoint(issuer, "userinfo")]
    /\ UNCHANGED <<running, issuer, state, pkce, interactionHandle, cache, now, session>>

\* getProfileData from client.Do on, and lines 152-155: a failed call leaves
\* a nil response, which line 426 dereferences (the handler panics);
\* otherwise the page is rendered with the profile and isAuthenticated.
UserinfoResponse(b) ==
    /\ running
    /\ pc[b] = "home_userinfo"
    /\ \E r \in UserinfoResults :
         IF r = "net_error"
         THEN Finish(b, Plain(b, req[b], "aborted", r))
         ELSE Finish(b, Response(b, req[b], "home_profile", r,
                                 isAuthenticated(b, req[b]), "", NilPKCE, ""))
    /\ UNCHANGED <<running, issuer, state, pkce, interactionHandle, cache, now, session>>

----------------------------------------------------------------------------
(* Time and the cache's janitor *)

Tick ==
    /\ now < MaxTime
    /\ now' = now + 1
    /\ resp' = NoResponse
    /\ UNCHANGED <<running, issuer, state, pkce, interactionHandle, cache, session,
                   pc, req, local>>

\* The janitor goroutine of the cache: DeleteExpired every 10 minutes.
Janitor ==
    /\ running
    /\ \E k \in CacheKeys : cache[k].present /\ Expired(cache[k], now)
    /\ cache' = cacheDeleteExpired(cache, now)
    /\ resp' = NoResponse
    /\ UNCHANGED <<running, issuer, state, pkce, interactionHandle, now, session,
                   pc, req, local>>

----------------------------------------------------------------------------
(* Specifications *)

\* The requests of the browsers handled concurrently, within one tick of the
\* clock.
Next ==
    \/ \E b \in Browsers : LoginHandler(b)
    \/ \E b \in Browsers : LoginSave(b)
    \/ \E b \in Browsers : LoginSendInteract(b)
    \/ \E b \in Browsers : LoginInteract(b)
    \/ \E b \in Browsers : LoginCallbackHandler(b)
    \/ \E b \in Browsers : TokenResponse(b)
    \/ \E b \in Browsers : CallbackAddAccessToken(b)
    \/ \E b \in Browsers : LogoutHandler(b)
    \/ \E b \in Browsers : RevokeResponse(b)
    \/ \E b \in Browsers : HomeHandler(b)
    \/ \E b \in Browsers : UserinfoResponse(b)

Spec == Init /\ [][Next]_vars

\* No request of another browser is being handled.
Alone(b) == \A c \in Browsers \ {b} : pc[c] = "idle"

\* The requests handled one after the other, while the clock advances and
\* the janitor runs at any point of a handler.
NextTimed ==
    \/ \E b \in Browsers : Alone(b) /\ LoginHandler(b)
    \/ \E b \in Browsers : LoginSave(b)
    \/ \E b \in Browsers : LoginSendInteract(b)
    \/ \E b \in Browsers : LoginInteract(b)
    \/ \E b \in Browsers : Alone(b) /\ LoginCallbackHandler(b)
    \/ \E b \in Browsers : TokenResponse(b)
    \/ \E b \in Browsers : CallbackAddAccessToken(b)
    \/ \E b \in Browsers : Alone(b) /\ LogoutHandler(b)
    \/ \E b \in Browsers : RevokeResponse(b)
    \/ \E b \in Browsers : Alone(b) /\ HomeHandler(b)
    \/ \E b \in Browsers : UserinfoResponse(b)
    \/ Tick
    \/ Janitor

SpecTimed == Init /\ [][NextTimed]_vars

\* One browser.
FirstBrowser == "A"

\* The requests of one browser, one after the other.
NextOne ==
    \/ LoginHandler(FirstBrowser)
    \/ LoginSave(FirstBrowser)
    \/ LoginSendInteract(FirstBrowser)
    \/ LoginInteract(FirstBrowser)
    \/ LoginCallbackHandler(FirstBrowser)
    \/ TokenResponse(FirstBrowser)
    \/ CallbackAddAccessToken(FirstBrowser)
    \/ LogoutHandler(FirstBrowser)
    \/ RevokeResponse(FirstBrowser)
    \/ HomeHandler(FirstBrowser)
    \/ UserinfoResponse(FirstBrowser)

\* The server started with any of the issuers.
InitIssuers ==
    /\ issuer \in Issuers
    /\ Started

\* The server started with any of the issuers, serving one browser.
SpecIssuers == InitIssuers /\ [][NextOne]_vars

----------------------------------------------------------------------------
(* Properties *)

\* A request of handler h that carries the browser's cookie intact.
GoodRequest(h) ==
    [handler |-> h, state |-> "", error |-> "", interaction_code |-> "",
     cookieErr |-> FALSE]

\* The value that the handler itself appended to the values vs of a parameter
\* of the token request.
Added(vs) == vs[Len(vs)]

\* What isAuthenticated tells browser b when it presents its cookie.
Authenticated(b) == isAuthenticated(b, GoodRequest("home"))

\* The handler of a callback of b is past its checks: the token request of
\* the callback has been issued.
Exchanging(b) == pc[b] \in {"cb_exchange", "cb_add_access"}

\* C1: a callback whose state parameter differs from the server's stored
\* state is answered on the state-mismatch path in its first step: no token
\* request is built or issued for it and the cache is left as it was.  No
\* callback that is past its checks carries a state other than the stored
\* one.
C1_StateMismatchFails ==
    [][ /\ \A b \in Browsers :
             ( /\ resp'.to = b
               /\ resp'.req.handler = "callback"
               /\ resp'.req.state # state )
             => ( /\ resp'.kind = "state_mismatch"
                  /\ pc[b] = "idle" /\ pc'[b] = "idle"
                  /\ local'[b] = NoLocal
                  /\ cache' = cache
                  /\ running' )
        /\ \A b \in Browsers : Exchanging(b)' => (req'[b].state = state') ]_vars

\* A callback with a wrong state was refused although it carried an
\* interaction code and its session held PKCE data.
C1_Witness ==
    /\ resp.kind = "state_mismatch"
    /\ resp.req.state # state
    /\ resp.req.error = ""
    /\ resp.req.interaction_code # ""
    /\ ~resp.req.cookieErr
    /\ \E b \in Browsers : resp.to = b /\ ~pkceMissing(session[b])

Holds(b, k) ==
    /\ cacheGet(cache, k, now).found
    /\ cache[k].Owner = b

\* C3: a logout of one browser removes no cache entry that another browser
\* holds: whenever a step answers a logout request of browser a, every
\* unexpired entry stored for another browser is still in the cache, and
\* still returned by get, after the step.
C3_LogoutKeepsOtherSessions ==
    [][ \A a \in Browsers : \A k \in CacheKeys :
          ( /\ resp'.to = a
            /\ resp'.req.handler = "logout"
            /\ \E b \in Browsers \ {a} : Holds(b, k) )
          => ( /\ cache'[k] = cache[k]
               /\ cacheGet(cache', k, now').found ) ]_vars

\* C4: the PKCE data rendered into a login page for a browser, by
\* LoginHandler or by the interaction_required path of the callback, is the
\* PKCE data of that browser's own session: no login of another browser
\* changes what a browser's flow uses.
C4_FlowUsesOwnPkce ==
    \A b \in Browsers :
        ( /\ resp.to = b
          /\ resp.kind = "login_page"
          /\ ~resp.req.cookieErr
          /\ ~pkceMissing(session[b]) )
        => ( /\ resp.Pkce.CodeVerifier = session[b].pkce_code_verifier
             /\ resp.Pkce.CodeChallenge = session[b].pkce_code_challenge )

\* C5: a token response whose body carries an error field is a failed
\* exchange: the callback that received it does not go on to cache tokens.
C5_ErrorFieldIsFailure ==
    \A b \in Browsers :
        local[b].exchange.Error # "" => pc[b] # "cb_add_access"

\* C6: a callback that fails on the verification of the identity token or on
\* a network failure or timeout of the token call ends as an error response
\* of that request, and the process keeps running.
C6_CallbackFailureIsPerRequest ==
    ( /\ resp.req.handler = "callback"
      /\ resp.cause \in {"verification", "net_error"} )
    => ( running /\ resp.kind # "exit" )


\* C7: an entry of the token cache is returned by get for at most one hour
\* after the callback stored it: an entry stored more than one hour ago is
\* not found, and a browser is then reported authenticated only on an
\* identity token stored within the last hour.
C7_ExpiredEntriesUnreachable ==
    /\ \A k \in CacheKeys :
         (cache[k].present /\ now > cache[k].Created + Hour)
            => ~cacheGet(cache, k, now).found
    /\ \A b \in Browsers :
         Authenticated(b)
            => /\ cache[CacheKey(b, "id_token")].present
               /\ now <= cache[CacheKey(b, "id_token")].Created + Hour

\* The identity token of a login is still in the cache's table more than an
\* hour after it was stored, and the browser that logged in is no longer
\* reported authenticated.
C7_Witness ==
    \E b \in Browsers :
        /\ cache[CacheKey(b, "id_token")].present
        /\ cache[CacheKey(b, "id_token")].Owner = b
        /\ now > cache[CacheKey(b, "id_token")].Created + Hour
        /\ ~Authenticated(b)
        /\ pc[b] = "idle"
        /\ running

\* Browser b completed a login that is still valid: the identity token that
\* its callback stored after verification is unexpired in the cache and the
\* callback has returned.
LoggedIn(b) ==
    /\ Holds(b, CacheKey(b, "id_token"))
    /\ pc[b] # "cb_add_access"

\* C8: a browser that completed a valid exchange and verification is
\* reported authenticated until it logs out or its tokens expire, and a
\* browser with no identity token in its session values and none in the
\* cache is reported unauthenticated.
C8_LoggedInIsAuthenticated ==
    [][ \A b \in Browsers :
          /\ ( /\ LoggedIn(b)
               /\ now' = now
               /\ running'
               /\ ~(resp'.to = b /\ resp'.req.handler = "logout") )
             => Authenticated(b)'
          /\ ( /\ session'[b].id_token = ""
               /\ ~cacheGet(cache', CacheKey(b, "id_token"), now').found )
             => ~Authenticated(b)' ]_vars

\* C9: a logout of an authenticated browser whose access token is in the
\* cache is answered with the redirect only after a revoke request for that
\* token was sent: the step that flushes the cache and redirects is the one
\* that follows the revoke call, never the first step of the handler.
C9_RevokeBeforePurge ==
    [][ \A b \in Browsers :
          ( /\ resp'.to = b
            /\ resp'.kind = "logout_redirect"
            /\ isAuthenticated(b, resp'.req)
            /\ cacheGet(cache, CacheKey(b, "access_token"), now).found )
          => ( /\ pc[b] = "logout_revoke"
               /\ local[b].revoke =
                     cacheGet(cache, CacheKey(b, "access_token"), now).value ) ]_vars

\* C10: a logout whose revoke call failed still flushes the cache and
\* answers with the redirect.
C10_RevokeFailureStillLogsOut ==
    ( /\ resp.req.handler = "logout"
      /\ resp.cause \in {"http_error", "net_error", "redirect_error"} )
    => ( /\ resp.kind = "logout_redirect"
         /\ \A k \in CacheKeys : ~cache[k].present )

\* C11: the state value is generated fresh for every initiation: two
\* executions of LoginHandler never use the same state, neither in the
\* interact requests they send nor in the login page one of them renders
\* while the interact request of the other is in flight.
C11_StateFreshPerInitiation ==
    /\ \A a, b \in Browsers :
         ( /\ a # b
           /\ pc[a] = "login_interact"
           /\ pc[b] = "login_interact" )
         => local[a].interact.state # local[b].interact.state
    /\ \A b \in Browsers :
         ( /\ resp.kind = "login_page"
           /\ resp.req.handler = "login"
           /\ resp.to # b
           /\ pc[b] = "login_interact" )
         => resp.State # local[b].interact.state

\* C12: the flow state of a session is single-use: when a callback of a
\* browser completes a successful exchange, the state and the PKCE verifier
\* it used are discarded or replaced, so that a second callback with the same
\* state and the same cookie would not pass the checks and send another token
\* request with that verifier.
C12_FlowStateSingleUse ==
    [][ \A b \in Browsers :
          ( /\ pc[b] = "cb_add_access"
            /\ resp'.to = b
            /\ resp'.kind = "callback_redirect" )
          => ~( /\ req[b].state = state'
                /\ session'[b].pkce_code_verifier = Added(local[b].token.code_verifier)
                /\ session'[b].pkce_code_challenge # <<>>
                /\ session'[b].pkce_code_challenge_method # "" ) ]_vars

\* C13: the token request sent for a callback with matching state and an
\* interaction code carries grant_type=interaction_code, the interaction code
\* of the callback and, as code_verifier, the verifier that the session's
\* initiation stored; and that verifier is the one whose challenge the
\* initiation sent in its interact request.
C13_TokenRequestContent ==
    [][ \A b \in Browsers :
          /\ ( pc[b] = "idle" /\ pc'[b] = "cb_exchange" )
             => ( /\ req'[b].state = state
                  /\ req'[b].interaction_code # ""
                  /\ Added(local'[b].token.grant_type) = "interaction_code"
                  /\ local'[b].token.interaction_code = <<req'[b].interaction_code>>
                  /\ Added(local'[b].token.code_verifier) # 0
                  /\ Added(local'[b].token.code_verifier) = session[b].pkce_code_verifier )
          /\ ( /\ pc[b] = "login_send"
               /\ pc'[b] = "login_interact"
               /\ local[b].created
               /\ ~req[b].cookieErr )
             => local'[b].interact.code_challenge
                   = CodeChallengeOf(session[b].pkce_code_verifier) ]_vars

\* C14: the PKCE code verifier is never handed to the browser: it is in no
\* page data rendered for a response and in no value of the cookie-backed
\* session.
C14_VerifierStaysOnServer ==
    /\ resp.Pkce.CodeVerifier = 0
    /\ \A b \in Browsers : session[b].pkce_code_verifier = 0

\* The identity and access tokens that an exchange may return.
ExchangeTokens ==
    ({r.IdToken : r \in TokenResponses} \cup {r.AccessToken : r \in TokenResponses})
        \ {""}

\* C15: the tokens of an exchange are held only in the token cache: no
\* session value of a browser's cookie and no field of the data handed to a
\* page is an identity or access token.
C15_TokensOnlyInCache ==
    /\ \A b \in Browsers :
         /\ session[b].id_token = ""
         /\ session[b].access_token = ""
    /\ resp.State \notin ExchangeTokens
    /\ resp.InteractionHandle \notin ExchangeTokens

\* A browser whose login stored both tokens in the cache was shown its
\* profile page.
C15_Witness ==
    /\ resp.kind = "home_profile"
    /\ Holds(resp.to, CacheKey(resp.to, "id_token"))
    /\ Holds(resp.to, CacheKey(resp.to, "access_token"))
    /\ ~pkceMissing(session[resp.to])

\* The number that the digits ds spell in the given base, first digit the
\* most significant.
RECURSIVE NumberOf(_, _)
NumberOf(ds, base) ==
    IF Len(ds) = 0 THEN 0
    ELSE NumberOf(SubSeq(ds, 1, Len(ds) - 1), base) * base + ds[Len(ds)]

\* The characters of the URL-safe base64 alphabet and the 6-bit value each
\* stands for.
URLAlphabet == {encodeURL[i] : i \in 1..Len(encodeURL)}
URLValue(c) == (CHOOSE i \in 1..Len(encodeURL) : encodeURL[i] = c) - 1

\* C16: every PKCE pair that createPKCEData produced has method "S256" and a
\* challenge that is the unpadded URL-safe base64 text of the SHA-256 digest
\* of its verifier: only characters of the alphabet (no "="), as many as the
\* digest's bits need, and spelling the digest's bits followed by zero bits.
C16_ChallengeIsHashOfVerifier ==
    pkce.CodeVerifier # 0 =>
        LET ch == pkce.CodeChallenge
            d == sha256Sum(pkce.CodeVerifier)
        IN  /\ pkce.CodeChallengeMethod = "S256"
            /\ \A i \in 1..Len(ch) : ch[i] # "=" /\ ch[i] \in URLAlphabet
            /\ Len(ch) = (8 * Len(d) + 5) \div 6
            /\ NumberOf([i \in 1..Len(ch) |-> URLValue(ch[i])], 64)
                  = NumberOf(d, 256) * 2^(6 * Len(ch) - 8 * Len(d))

\* LoginHandler created PKCE data and stored it in a browser's session.
C16_Witness ==
    /\ pkce.CodeVerifier # 0
    /\ Len(pkce.CodeChallenge) > 0
    /\ \E b \in Browsers : session[b].pkce_code_challenge = pkce.CodeChallenge

\* C17: the interact operation fails on a network failure, on a non-2xx
\* status and on a response without interaction_handle, and the flow then
\* does not go on to present the login page: LoginHandler renders the login
\* page only after an interact call that returned 2xx with a handle.
C17_InteractFailureStopsFlow ==
    ( /\ resp.kind = "login_page"
      /\ resp.req.handler = "login" )
    => ( /\ resp.cause = "ok"
         /\ resp.InteractionHandle # "" )

\* The path of issuer iss has a segment "oauth2": a piece "oauth2" that
\* follows a "/" and is followed by a "/" or by the end of the text.
HasOAuth2Segment(iss) ==
    \E i \in 2..Len(iss) :
        /\ iss[i] = "oauth2"
        /\ iss[i - 1] = "/"
        /\ (i = Len(iss) \/ iss[i + 1] = "/")

\* The operation of the outbound request that the handler of b waits for.
OperationAt(l) ==
    CASE l = "login_interact" -> "interact"
      [] l = "cb_exchange" -> "token"
      [] l = "logout_revoke" -> "revoke"
      [] l = "home_userinfo" -> "userinfo"
      [] OTHER -> ""

\* C18: every outbound request goes to {issuer}/v1/{op} exactly when the
\* path of the issuer has an OAuth2 segment, and to {issuer}/oauth2/v1/{op}
\* otherwise, for each of interact, token, revoke and userinfo.
C18_EndPointConvention ==
    \A b \in Browsers :
        OperationAt(pc[b]) # ""
        => local[b].url =
             IF HasOAuth2Segment(issuer)
             THEN issuer \o << "/", "v1", "/", OperationAt(pc[b]) >>
             ELSE issuer \o << "/", "oauth2", "/", "v1", "/", OperationAt(pc[b]) >>

\* C19: a callback with matching state, no interaction_required error and a
\* missing or empty interaction_code is answered on the missing-code path in
\* its first step: no token request is built or sent for it, the cache is
\* left as it was, and no callback that is past its checks is without an
\* interaction code.
C19_MissingCodeFails ==
    [][ /\ \A b \in Browsers :
             ( /\ resp'.to = b
               /\ resp'.req.handler = "callback"
               /\ resp'.req.state = state
               /\ resp'.req.error # "interaction_required"
               /\ resp'.req.interaction_code = "" )
             => ( /\ resp'.kind = "no_code"
                  /\ pc[b] = "idle" /\ pc'[b] = "idle"
                  /\ local'[b] = NoLocal
                  /\ cache' = cache
                  /\ running' )
        /\ \A b \in Browsers :
             Exchanging(b)' => req'[b].interaction_code # "" ]_vars

\* A callback with the right state and a session that holds PKCE data was
\* refused for its missing interaction code.
C19_Witness ==
    /\ resp.kind = "no_code"
    /\ resp.req.state = state
    /\ resp.req.interaction_code = ""
    /\ ~resp.req.cookieErr
    /\ \E b \in Browsers :
         /\ resp.to = b
         /\ session[b].pkce_code_verifier # 0

\* The session that request r of browser b presents lacks one of the three
\* PKCE values: the cookie does not decode, or a value is absent or empty.
PkceAbsent(b, r) ==
    \/ r.cookieErr
    \/ session[b].pkce_code_verifier = 0
    \/ session[b].pkce_code_challenge = <<>>
    \/ session[b].pkce_code_challenge_method = ""

\* C20: a callback that reaches the exchange step (matching state, no
\* interaction_required error, an interaction code) with a session that
\* lacks one of the PKCE values is answered on the missing-PKCE path in its
\* first step: no token request is built or sent for it and the cache is left
\* as it was; every callback that is past its checks has all three values in
\* its session.
C20_MissingPkceFails ==
    [][ /\ \A b \in Browsers :
             ( /\ resp'.to = b
               /\ resp'.req.handler = "callback"
               /\ resp'.req.state = state
               /\ resp'.req.error # "interaction_required"
               /\ resp'.req.interaction_code # ""
               /\ PkceAbsent(b, resp'.req) )
             => ( /\ resp'.kind = "no_pkce"
                  /\ pc[b] = "idle" /\ pc'[b] = "idle"
                  /\ local'[b] = NoLocal
                  /\ cache' = cache
                  /\ running' )
        /\ \A b \in Browsers :
             Exchanging(b)' => ~PkceAbsent(b, req[b])' ]_vars

\* A callback with the right state and an interaction code was refused
\* because its browser never ran LoginHandler.
C20_Witness ==
    /\ resp.kind = "no_pkce"
    /\ resp.req.state = state
    /\ resp.req.interaction_code # ""
    /\ ~resp.req.cookieErr
    /\ \E b \in Browsers :
         /\ resp.to = b
         /\ session[b] = EmptyValues

\* The answers with which a callback ends in Failed.
FailedKinds == {"state_mismatch", "no_code", "no_pkce", "exit"}

\* C21: Failed is terminal for a flow: when a callback of a browser has just
\* ended in Failed, the next request of that browser is not a callback that
\* passes the checks and reaches the exchange; only a new initiation
\* (LoginHandler) can come between.
C21_FailedIsTerminal ==
    [][ \A b \in Browsers :
          ( /\ resp.to = b
            /\ resp.req.handler = "callback"
            /\ resp.kind \in FailedKinds )
          => ~(pc[b] = "idle" /\ pc'[b] = "cb_exchange") ]_vars

\* C22: when the session that a login request presents already holds PKCE
\* data, LoginHandler reuses it: the verifier and challenge of the session
\* are left as they are and the stored challenge is the one sent to the
\* interact endpoint; new PKCE data is generated only for a session without.
C22_PkceReused ==
    [][ \A b \in Browsers :
          /\ ( /\ pc[b] = "idle"
               /\ req'[b].handler = "login"
               /\ ~PkceAbsent(b, req'[b]) )
             => ( /\ ~local'[b].created
                  /\ pkce'.CodeVerifier = session[b].pkce_code_verifier
                  /\ pkce'.CodeChallenge = session[b].pkce_code_challenge )
          /\ ( /\ pc[b] = "login_save"
               /\ ~PkceAbsent(b, req[b]) )
             => session'[b] = session[b]
          /\ ( /\ pc[b] = "login_send"
               /\ pc'[b] = "login_interact"
               /\ ~req[b].cookieErr
               /\ ~local[b].created )
             => local'[b].interact.code_challenge
                   = session[b].pkce_code_challenge ]_vars

\* C23: a callback with matching state and error = "interaction_required"
\* is answered in one step with the login page, rendered with the stored
\* interaction handle and with the PKCE data that the browser's own
\* initiation stored in its session; it sends no interact and no token
\* request and leaves state, PKCE data, interaction handle and cache as they
\* were.
C23_InteractionRequiredRerenders ==
    [][ \A b \in Browsers :
          ( /\ resp'.to = b
            /\ resp'.req.handler = "callback"
            /\ resp'.req.state = state
            /\ resp'.req.error = "interaction_required" )
          => ( /\ resp'.kind = "login_page"
               /\ pc[b] = "idle" /\ pc'[b] = "idle"
               /\ local'[b] = NoLocal
               /\ <<state', pkce', interactionHandle', cache'>>
                     = <<state, pkce, interactionHandle, cache>>
               /\ resp'.InteractionHandle = interactionHandle
               /\ ~PkceAbsent(b, resp'.req)
                     => ( /\ resp'.Pkce.CodeVerifier = session[b].pkce_code_verifier
                          /\ resp'.Pkce.CodeChallenge = session[b].pkce_code_challenge ) ) ]_vars

\* C24: the nonce generated at initiation protects against the replay of
\* identity tokens: the identity token on which a callback goes on to
\* authenticate its browser, and the identity token on which a browser is
\* reported authenticated, carries a nonce that LoginHandler generated.
C24_NonceBindsToken ==
    \A b \in Browsers :
        /\ pc[b] = "cb_add_access"
              => NonceClaim(local[b].exchange.IdToken) \in Nonces
        /\ Authenticated(b)
              => NonceClaim(cacheGet(cache, CacheKey(b, "id_token"), now).value)
                    \in Nonces

\* C25: tokens are cached under keys that differ between browser sessions: a
\* browser that never ran LoginHandler, and so never completed a login, is
\* reported unauthenticated and getProfileData finds no access token for it,
\* whatever logins other browsers completed.
C25_DistinctKeysPerSession ==
    \A b \in Browsers :
        session[b] = EmptyValues
        => ( /\ ~Authenticated(b)
             /\ profileAccessToken(b, GoodRequest("home")) = "" )

\* Browser b presents its cookie and finds no identity token and no access
\* token.
Purged(b) ==
    /\ ~Authenticated(b)
    /\ profileAccessToken(b, GoodRequest("home")) = ""

\* C26: when LogoutHandler has completed for a browser, the browser's tokens
\* are purged: it is reported unauthenticated and getProfileData finds no
\* access token for it, at the end of the logout and after any following
\* step in which the browser itself has no request in progress, so that it
\* cannot have logged in again.
C26_LogoutPurges ==
    [][ \A b \in Browsers :
          /\ ( /\ resp'.to = b
               /\ resp'.kind = "logout_redirect" )
             => Purged(b)'
          /\ ( /\ resp.to = b
               /\ resp.kind = "logout_redirect"
               /\ pc[b] = "idle"
               /\ pc'[b] = "idle"
               /\ resp'.to # b )
             => Purged(b)' ]_vars

\* No other browser's login stored the entry under b's key of the given
\* kind: the entry is absent, or a callback of b stored it.
OwnOrNone(b, kind) ==
    cache[CacheKey(b, kind)].present => cache[CacheKey(b, kind)].Owner = b

\* C27: a successful callback leaves the tokens of its exchange in the cache:
\* once it has stored the identity token, get of the browser's id_token
\* returns the identity token of this exchange, and once it has stored the
\* access token, get of access_token returns the access token of this
\* exchange, also when unexpired entries of an earlier login of the browser
\* were in the cache.
C27_LatestTokensReturned ==
    [][ \A b \in Browsers :
          /\ ( /\ pc[b] = "cb_exchange"
               /\ pc'[b] = "cb_add_access"
               /\ OwnOrNone(b, "id_token") )
             => cacheGet(cache', CacheKey(b, "id_token"), now').value
                   = local'[b].exchange.IdToken
          /\ ( /\ pc[b] = "cb_add_access"
               /\ resp'.to = b
               /\ resp'.kind = "callback_redirect"
               /\ OwnOrNone(b, "access_token") )
             => cacheGet(cache', CacheKey(b, "access_token"), now').value
                   = local[b].exchange.AccessToken ]_vars

\* C28: a token request is sent for a browser only after a LoginHandler
\* execution of that browser stored a verifier, a challenge and a method in
\* its session: the sessions start empty, a session is written only by the
\* saving step of its own browser's LoginHandler, which stores all three
\* values, and a callback sends the token request only with a session that
\* holds them, using the stored verifier.
C28_ExchangeOnlyAfterInitiate ==
    [][ \A b \in Browsers :
          /\ session'[b] # session[b]
             => ( /\ pc[b] = "login_save"
                  /\ req[b].handler = "login"
                  /\ session'[b].pkce_code_verifier # 0
                  /\ session'[b].pkce_code_challenge # <<>>
                  /\ session'[b].pkce_code_challenge_method # "" )
          /\ ( pc[b] = "idle" /\ pc'[b] = "cb_exchange" )
             => ( /\ session[b] # EmptyValues
                  /\ ~req'[b].cookieErr
                  /\ session[b].pkce_code_verifier # 0
                  /\ session[b].pkce_code_challenge # <<>>
                  /\ session[b].pkce_code_challenge_method # ""
                  /\ Added(local'[b].token.code_verifier)
                        = session[b].pkce_code_verifier ) ]_vars

\* The token request of a callback is in flight, with the verifier that the
\* browser's LoginHandler stored.
C28_Witness ==
    \E b \in Browsers :
        /\ pc[b] = "cb_exchange"
        /\ session[b].pkce_code_challenge_method = "S256"
        /\ Added(local[b].token.code_verifier) = session[b].pkce_code_verifier
        /\ Added(local[b].token.code_verifier) \in Verifiers

\* C29: under any interleaving of LoginHandler requests, the code challenge
\* that a request sends to the interact endpoint, and the PKCE data it
\* renders into its login page, are those of the verifier that the same
\* request stored in its own session.
C29_LoginUsesOwnChallenge ==
    [][ \A b \in Browsers :
          ( /\ req[b].handler = "login"
            /\ local[b].created
            /\ ~req[b].cookieErr )
          => ( /\ ( pc[b] = "login_send" /\ pc'[b] = "login_interact" )
                  => local'[b].interact.code_challenge
                        = CodeChallengeOf(session[b].pkce_code_verifier)
               /\ ( /\ pc[b] = "login_interact"
                    /\ resp'.to = b
                    /\ resp'.kind = "login_page" )
                  => ( /\ local[b].interact.code_challenge
                             = CodeChallengeOf(session[b].pkce_code_verifier)
                       /\ resp'.Pkce.CodeVerifier = session[b].pkce_code_verifier
                       /\ resp'.Pkce.CodeChallenge
                             = CodeChallengeOf(session[b].pkce_code_verifier) ) ) ]_vars

\* C30: the token request that LoginCallbackHandler sends carries exactly one
\* value for each of grant_type, client_id, client_secret and code_verifier,
\* namely the constant "interaction_code", the configured client id and
\* secret, and the verifier of the session, whatever other parameters the
\* callback URL carried: a value that the callback URL supplied for one of
\* these names is not part of the token request.
C30_TokenRequestSingleValued ==
    \A b \in Browsers :
        pc[b] = "cb_exchange"
        => ( /\ local[b].token.grant_type = <<"interaction_code">>
             /\ local[b].token.client_id = <<ClientID>>
             /\ local[b].token.client_secret = <<ClientSecret>>
             /\ local[b].token.code_verifier = <<session[b].pkce_code_verifier>> )

\* C31: the identity token and the access token of a login are observed
\* together or not at all: a home request that carries its cookie and finds no
\* access token is not told that it is authenticated, and a home request that
\* finds an access token, and goes on to the userinfo call with it, is
\* authenticated, under any interleaving with callbacks and logouts.
C31_TokensObservedTogether ==
    [][ \A b \in Browsers :
          /\ ( /\ pc[b] = "idle"
               /\ resp'.to = b
               /\ resp'.kind = "home_page"
               /\ ~resp'.req.cookieErr )
             => ~resp'.IsAuthenticated
          /\ ( pc[b] = "idle" /\ pc'[b] = "home_userinfo" )
             => ( /\ cacheGet(cache, CacheKey(b, "access_token"), now).found
                  /\ cacheGet(cache, CacheKey(b, "id_token"), now).found ) ]_vars

\* A step of the handler of a callback of browser b after which the process
\* is still running.
CallbackStep(b) ==
    /\ running'
    /\ \/ ( pc[b] = "idle" /\ pc'[b] = "cb_exchange" )
       \/ ( pc[b] = "idle" /\ resp'.to = b /\ resp'.req.handler = "callback" )
       \/ ( pc[b] \in {"cb_exchange", "cb_add_access"} /\ pc'[b] # pc[b] )

\* The token response x is that of a successful exchange: the call returned a
\* 2xx response whose body decodes and carries no error field.
ExchangeSucceeded(x) ==
    /\ x.Result = "ok"
    /\ x.Status = 200
    /\ x.Error = ""

\* C32: LoginCallbackHandler leaves the server's stored state, PKCE data and
\* interaction handle as they are on every path, and a step of it changes the
\* token cache only for a callback whose state matched, that carried an
\* interaction code and presented a session with the PKCE values, and whose
\* exchange succeeded with an identity token that verifies.
C32_CallbackFrame ==
    [][ \A b \in Browsers :
          CallbackStep(b)
          => ( /\ state' = state
               /\ pkce' = pkce
               /\ interactionHandle' = interactionHandle
               /\ cache' # cache
                     => LET exchange == IF pc[b] = "cb_exchange"
                                        THEN local'[b].exchange
                                        ELSE local[b].exchange
                        IN
                        ( /\ pc[b] \in {"cb_exchange", "cb_add_access"}
                          /\ req[b].state = state
                          /\ req[b].error # "interaction_required"
                          /\ req[b].interaction_code # ""
                          /\ ~PkceAbsent(b, req[b])
                          /\ ExchangeSucceeded(exchange)
                          /\ exchange.IdToken \in VerifiableIdTokens ) ) ]_vars

====
